---- MODULE Spec2Model ----
(***************************************************************************)
(* State-machine model of the solfight on-chain program                    *)
(* (src/programs/solfight/src).  One action per instruction; every         *)
(* instruction is one atomic transaction: Anchor validates the accounts    *)
(* struct in field order, runs the handler, and the runtime keeps the      *)
(* account writes only when the handler returns Ok.                        *)
(*                                                                         *)
(* Integer widths: TLC integers are 32-bit, so the program's u64 is        *)
(* modelled as an unsigned word of U64Bits bits and i64 as a signed word   *)
(* of the same size; every checked_* operation tests against that width.   *)
(***************************************************************************)
EXTENDS Integers, Sequences, FiniteSets, TLC

\* ------------------------------------------------------------------ bounds
U64Bits == 29
MaxGames == 2
MaxTime == 2

U64_MAX == 2^U64Bits - 1
I64_MAX == 2^(U64Bits - 1) - 1
I64_MIN == 0 - I64_MAX - 1
HalfMax == U64_MAX \div 2

\* --------------------------------------------------------- program constants
MAX_FEE_BPS == 2500
BPS_DENOMINATOR == 10000
MAX_TAG_LEN == 16
DEFAULT_ELO == 1200
ELO_FLOOR == 100
K_NEWCOMER == 40
K_REGULAR == 32
NEWCOMER_GAMES == 30

\* ------------------------------------------------------------ input domains
Admin == "admin"
Players == {"alice", "bob"}
Signers == {Admin} \cup Players
TreasuryKey == "treasury"
Keys == Signers \cup {TreasuryKey}
GameIds == 1..MaxGames
FeeChoices == {250, 2500, 2501}
TagChoices == {0, 3, 17}
BetChoices == {0, 2, HalfMax, U64_MAX}
PlayerPairs == {<<"alice", "bob">>, <<"alice", "alice">>}
TimeframeChoices == {60}
PnlPairs == {<<I64_MAX, 0 - 1>>, <<0 - 1, I64_MAX>>}
\* Owners of the token accounts a caller may pass as the treasury's.
TreasuryOwnerChoices == {TreasuryKey, "alice"}
\* Which token account of the call the ledger rejects: 0 none, 1 the first,
\* 2 the second.
LedgerRejectChoices == {0, 1, 2}

None == "None"
\* The winner a settle may report: any key, or no winner.
WinnerChoices == Signers \cup {None}
NoAccount == [exists |-> FALSE]

GameStatus == {"Pending", "Active", "Settled", "Cancelled"}

\* ------------------------------------------------------------------- state
VARIABLES platform, profiles, games, escrow, wallet, now, last, done, history, calc

vars == <<platform, profiles, games, escrow, wallet, now, last, done, history, calc>>

\* The accounts a transaction can touch, as one record.
Cur ==
  [platform |-> platform, profiles |-> profiles, games |-> games,
   escrow |-> escrow, wallet |-> wallet]

\* Outcome of a handler: the error code ("Ok" on success), the account
\* contents as the handler left them when it returned, and the token
\* transfers it performed.
Result(e, s, x) == [err |-> e, st |-> s, xfers |-> x]

\* ------------------------------------------------------ checked arithmetic
\* u64::checked_mul / checked_add / checked_sub / checked_div, i64::checked_add.
\* The result is an Option: Some(v) or NoneOpt.
Some(v) == [some |-> TRUE, v |-> v]

NoneOpt == [some |-> FALSE]

CheckedMulU64(a, b) ==
  IF b # 0 /\ a > U64_MAX \div b THEN NoneOpt ELSE Some(a * b)

CheckedAddU64(a, b) ==
  IF a > U64_MAX - b THEN NoneOpt ELSE Some(a + b)

CheckedSubU64(a, b) ==
  IF b > a THEN NoneOpt ELSE Some(a - b)

CheckedDivU64(a, b) ==
  IF b = 0 THEN NoneOpt ELSE Some(a \div b)

CheckedAddI64(a, b) ==
  IF (b > 0 /\ a > I64_MAX - b) \/ (b < 0 /\ a < I64_MIN - b) THEN NoneOpt ELSE Some(a + b)

\* ---------------------------------------------------------- ledger adapter
\* spl-token Transfer between two token accounts of the state s.  An account
\* is the token account of a wallet or the escrow of a game.  accOk is FALSE
\* when the token program rejects the accounts passed (wrong mint, frozen
\* account).
Wallet(k) == [wallet |-> k]

Escrow(g) == [escrow |-> g]

Balance(s, acc) ==
  IF "wallet" \in DOMAIN acc THEN s.wallet[acc.wallet] ELSE s.escrow[acc.escrow].amount

SetBalance(s, acc, v) ==
  IF "wallet" \in DOMAIN acc
  THEN [s EXCEPT !.wallet[acc.wallet] = v]
  ELSE [s EXCEPT !.escrow[acc.escrow].amount = v]

TokenTransfer(s, from, to, amount, accOk) ==
  IF ~accOk THEN Result("TokenAccountMismatch", s, <<>>)
  ELSE IF Balance(s, from) < amount THEN Result("TokenInsufficientFunds", s, <<>>)
  ELSE IF ~CheckedAddU64(Balance(s, to), amount).some THEN Result("TokenOverflow", s, <<>>)
  ELSE Result("Ok",
              SetBalance(SetBalance(s, from, Balance(s, from) - amount),
                         to, Balance(s, to) + amount),
              <<[from |-> from, to |-> to, amount |-> amount]>>)

\* ------------------------------------------------------ transaction commit
\* Variant of Commit that keeps the writes of a failed instruction.
CommitPartial(s, r) == r.st

\* The program entry point: the accounts are written back only when the
\* instruction returns Ok; on any error the transaction is rolled back.
Commit(s, r) ==
  IF r.err = "Ok" THEN r.st ELSE s

\* The record of the last instruction that succeeded.
Executed(op, signer, g, r) ==
  [op |-> op, signer |-> signer, game |-> g, xfers |-> r.xfers]

RECURSIVE Credit(_, _)
\* paid, with the amount of every transfer of xfers added to its receiver.
Credit(paid, xfers) ==
  IF xfers = <<>> THEN paid
  ELSE Credit([paid EXCEPT ![Head(xfers).to.wallet] = @ + Head(xfers).amount],
              Tail(xfers))

\* The events emitted so far, summed up: the game_id and the bet_amount of
\* every GameCreated event in the order of emission, the total of the
\* amounts of the PlayerDeposited events and, for every game, what each
\* holder has received from its escrow according to the WinningsClaimed and
\* EscrowRefunded events.
Emitted(op, g, r) ==
  CASE op = "start_game" ->
         [history EXCEPT !.ids = Append(@, r.st.games[g].game_id),
                         !.stakes = Append(@, r.st.games[g].bet_amount)]
    [] op = "deposit_to_escrow" ->
         [history EXCEPT !.deposited = @ + r.xfers[1].amount]
    [] op \in {"claim_winnings", "refund_escrow"} ->
         [history EXCEPT !.paid[g] = Credit(@, r.xfers)]
    [] OTHER -> history

\* No event emitted yet.
NoHistory ==
  [ids |-> <<>>, stakes |-> <<>>, deposited |-> 0,
   paid |-> [g \in GameIds |-> [k \in Keys |-> 0]]]

\* Apply the outcome r of instruction op to the state.  A failed instruction
\* leaves no trace on chain: it is a stuttering step.  done[g] is the history
\* of the instructions that have succeeded on game g (tag names the
\* instruction).
Apply(op, signer, g, r, tag) ==
  LET s2 == Commit(Cur, r) IN
  /\ r.err = "Ok" \/ s2 # Cur
  /\ platform' = s2.platform
  /\ profiles' = s2.profiles
  /\ games' = s2.games
  /\ escrow' = s2.escrow
  /\ wallet' = s2.wallet
  /\ last' = IF r.err = "Ok" THEN Executed(op, signer, g, r) ELSE last
  /\ done' = IF r.err = "Ok" /\ g \in GameIds
             THEN [done EXCEPT ![g] = @ \cup {tag}]
             ELSE done
  /\ history' = IF r.err = "Ok" THEN Emitted(op, g, r) ELSE history

\* ------------------------------------------------------ initialize_platform
\* Variant of InitializePlatformAccounts that accepts an existing registry
\* (init_if_needed).
InitializePlatformAccountsIfNeeded(s) == "Ok"

InitializePlatformAccounts(s) ==
  IF s.platform.exists THEN "AccountAlreadyInUse" ELSE "Ok"

InitializePlatformHandler(s, authority, treasury, fee_bps) ==
  IF ~(fee_bps <= MAX_FEE_BPS) THEN Result("InvalidFeeBps", s, <<>>)
  ELSE Result("Ok",
              [s EXCEPT !.platform =
                 [exists |-> TRUE, authority |-> authority, fee_bps |-> fee_bps,
                  treasury |-> treasury, total_games |-> 0, total_volume |-> 0]],
              <<>>)

InitializePlatformIx(s, authority, treasury, fee_bps) ==
  LET a == InitializePlatformAccounts(s) IN
  IF a # "Ok" THEN Result(a, s, <<>>)
  ELSE InitializePlatformHandler(s, authority, treasury, fee_bps)

InitializePlatform ==
  \E fee_bps \in FeeChoices :
    /\ Apply("initialize_platform", Admin, 0,
             InitializePlatformIx(Cur, Admin, TreasuryKey, fee_bps), "init")
    /\ UNCHANGED <<now, calc>>

\* ----------------------------------------------------------- create_profile
CreateProfileAccounts(s, player) ==
  IF s.profiles[player].exists THEN "AccountAlreadyInUse" ELSE "Ok"

CreateProfileHandler(s, player, tag_len, clock) ==
  IF tag_len = 0 THEN Result("GamerTagEmpty", s, <<>>)
  ELSE IF ~(tag_len <= MAX_TAG_LEN) THEN Result("GamerTagTooLong", s, <<>>)
  ELSE Result("Ok",
              [s EXCEPT !.profiles[player] =
                 [exists |-> TRUE, authority |-> player, gamer_tag |-> tag_len,
                  elo_rating |-> DEFAULT_ELO, wins |-> 0, losses |-> 0,
                  total_pnl |-> 0, current_streak |-> 0, games_played |-> 0,
                  created_at |-> clock]],
              <<>>)

CreateProfileIx(s, player, tag_len, clock) ==
  LET a == CreateProfileAccounts(s, player) IN
  IF a # "Ok" THEN Result(a, s, <<>>)
  ELSE CreateProfileHandler(s, player, tag_len, clock)

CreateProfile ==
  \E player \in Players, tag_len \in TagChoices :
    /\ Apply("create_profile", player, 0,
             CreateProfileIx(Cur, player, tag_len, now), "profile")
    /\ UNCHANGED <<now, calc>>

\* --------------------------------------------------------------- start_game
StartGameAccounts(s, authority) ==
  IF ~s.platform.exists THEN "AccountNotInitialized"
  ELSE IF s.platform.authority # authority THEN "ConstraintHasOne"
  ELSE IF s.games[s.platform.total_games + 1].exists THEN "AccountAlreadyInUse"
  ELSE "Ok"

\* Variant of StartGameHandler that adds the stake to total_volume once.
StartGameHandlerSingleStake(s, player_one, player_two, bet_amount, timeframe_seconds) ==
  IF ~(bet_amount > 0) THEN Result("InvalidBetAmount", s, <<>>)
  ELSE
    LET game_id == s.platform.total_games + 1
        s1 == [s EXCEPT !.platform.total_games = game_id]
        pot == CheckedMulU64(bet_amount, 1)
        vol == IF pot.some THEN CheckedAddU64(s.platform.total_volume, pot.v) ELSE NoneOpt
    IN
    IF ~vol.some THEN Result("MathOverflow", s1, <<>>)
    ELSE Result("Ok",
                [s1 EXCEPT
                   !.platform.total_volume = vol.v,
                   !.games[game_id] =
                     [exists |-> TRUE, game_id |-> game_id,
                      player_one |-> player_one, player_two |-> player_two,
                      bet_amount |-> bet_amount,
                      timeframe_seconds |-> timeframe_seconds,
                      status |-> "Pending", winner |-> None,
                      player_one_pnl |-> 0, player_two_pnl |-> 0,
                      player_one_deposited |-> FALSE,
                      player_two_deposited |-> FALSE,
                      start_time |-> 0, end_time |-> 0, settled_at |-> 0],
                   !.escrow[game_id] = [exists |-> TRUE, amount |-> 0]],
                <<>>)

\* Variant of StartGameHandler that leaves total_volume as it is.
StartGameHandlerNoVolume(s, player_one, player_two, bet_amount, timeframe_seconds) ==
  IF ~(bet_amount > 0) THEN Result("InvalidBetAmount", s, <<>>)
  ELSE
    LET game_id == s.platform.total_games + 1
        s1 == [s EXCEPT !.platform.total_games = game_id]
        pot == CheckedMulU64(bet_amount, 2)
        vol == IF pot.some THEN CheckedAddU64(s.platform.total_volume, pot.v) ELSE NoneOpt
    IN
    IF ~vol.some THEN Result("MathOverflow", s1, <<>>)
    ELSE Result("Ok",
                [s1 EXCEPT
                   !.platform.total_volume = @,
                   !.games[game_id] =
                     [exists |-> TRUE, game_id |-> game_id,
                      player_one |-> player_one, player_two |-> player_two,
                      bet_amount |-> bet_amount,
                      timeframe_seconds |-> timeframe_seconds,
                      status |-> "Pending", winner |-> None,
                      player_one_pnl |-> 0, player_two_pnl |-> 0,
                      player_one_deposited |-> FALSE,
                      player_two_deposited |-> FALSE,
                      start_time |-> 0, end_time |-> 0, settled_at |-> 0],
                   !.escrow[game_id] = [exists |-> TRUE, amount |-> 0]],
                <<>>)

\* Variant of StartGameHandler that does not store the new total_games.
StartGameHandlerNoCount(s, player_one, player_two, bet_amount, timeframe_seconds) ==
  IF ~(bet_amount > 0) THEN Result("InvalidBetAmount", s, <<>>)
  ELSE
    LET game_id == s.platform.total_games + 1
        s1 == s
        pot == CheckedMulU64(bet_amount, 2)
        vol == IF pot.some THEN CheckedAddU64(s.platform.total_volume, pot.v) ELSE NoneOpt
    IN
    IF ~vol.some THEN Result("MathOverflow", s1, <<>>)
    ELSE Result("Ok",
                [s1 EXCEPT
                   !.platform.total_volume = vol.v,
                   !.games[game_id] =
                     [exists |-> TRUE, game_id |-> game_id,
                      player_one |-> player_one, player_two |-> player_two,
                      bet_amount |-> bet_amount,
                      timeframe_seconds |-> timeframe_seconds,
                      status |-> "Pending", winner |-> None,
                      player_one_pnl |-> 0, player_two_pnl |-> 0,
                      player_one_deposited |-> FALSE,
                      player_two_deposited |-> FALSE,
                      start_time |-> 0, end_time |-> 0, settled_at |-> 0],
                   !.escrow[game_id] = [exists |-> TRUE, amount |-> 0]],
                <<>>)

StartGameHandler(s, player_one, player_two, bet_amount, timeframe_seconds) ==
  IF ~(bet_amount > 0) THEN Result("InvalidBetAmount", s, <<>>)
  ELSE
    LET game_id == s.platform.total_games + 1
        s1 == [s EXCEPT !.platform.total_games = game_id]
        pot == CheckedMulU64(bet_amount, 2)
        vol == IF pot.some THEN CheckedAddU64(s.platform.total_volume, pot.v) ELSE NoneOpt
    IN
    IF ~vol.some THEN Result("MathOverflow", s1, <<>>)
    ELSE Result("Ok",
                [s1 EXCEPT
                   !.platform.total_volume = vol.v,
                   !.games[game_id] =
                     [exists |-> TRUE, game_id |-> game_id,
                      player_one |-> player_one, player_two |-> player_two,
                      bet_amount |-> bet_amount,
                      timeframe_seconds |-> timeframe_seconds,
                      status |-> "Pending", winner |-> None,
                      player_one_pnl |-> 0, player_two_pnl |-> 0,
                      player_one_deposited |-> FALSE,
                      player_two_deposited |-> FALSE,
                      start_time |-> 0, end_time |-> 0, settled_at |-> 0],
                   !.escrow[game_id] = [exists |-> TRUE, amount |-> 0]],
                <<>>)

StartGameIx(s, authority, player_one, player_two, bet_amount, timeframe_seconds) ==
  LET a == StartGameAccounts(s, authority) IN
  IF a # "Ok" THEN Result(a, s, <<>>)
  ELSE StartGameHandler(s, player_one, player_two, bet_amount, timeframe_seconds)

StartGame ==
  \E authority \in Signers, pp \in PlayerPairs, bet_amount \in BetChoices,
     timeframe_seconds \in TimeframeChoices :
    /\ platform.exists => platform.total_games < MaxGames
    /\ Apply("start_game", authority,
             IF platform.exists THEN platform.total_games + 1 ELSE 0,
             StartGameIx(Cur, authority, pp[1], pp[2], bet_amount, timeframe_seconds),
             "start_game")
    /\ UNCHANGED <<now, calc>>

\* ---------------------------------------------------------- deposit_to_escrow
\* from_owner is the owner of the token account passed as
\* player_token_account; mint_ok says whether its mint is the escrow's.
DepositToEscrowAccounts(s, player, g, from_owner, mint_ok) ==
  IF ~s.games[g].exists THEN "AccountNotInitialized"
  ELSE IF s.games[g].status # "Pending" THEN "GameNotPending"
  ELSE IF from_owner # player THEN "ConstraintRaw"
  ELSE IF ~mint_ok THEN "ConstraintRaw"
  ELSE IF ~(player = s.games[g].player_one \/ player = s.games[g].player_two)
       THEN "NotAPlayer"
  ELSE "Ok"

\* Variant of DepositToEscrowHandler without the already-deposited checks.
DepositToEscrowHandlerNoFlagCheck(s, player, g, acc_ok, clock) ==
  LET game == s.games[g]
      is_player_one == player = game.player_one
      t == TokenTransfer(s, Wallet(player), Escrow(g), game.bet_amount, acc_ok)
  IN
  IF t.err # "Ok" THEN Result(t.err, s, <<>>)
  ELSE
    LET s1 == IF is_player_one
              THEN [t.st EXCEPT !.games[g].player_one_deposited = TRUE]
              ELSE [t.st EXCEPT !.games[g].player_two_deposited = TRUE]
    IN
    IF s1.games[g].player_one_deposited /\ s1.games[g].player_two_deposited
    THEN
      LET s2 == [s1 EXCEPT !.games[g].status = "Active",
                           !.games[g].start_time = clock]
          e == CheckedAddI64(clock, game.timeframe_seconds)
      IN
      IF ~e.some THEN Result("MathOverflow", s2, t.xfers)
      ELSE Result("Ok", [s2 EXCEPT !.games[g].end_time = e.v], t.xfers)
    ELSE Result("Ok", s1, t.xfers)

\* Variant of DepositToEscrowHandler that activates the game as soon as
\* either player has deposited.
DepositToEscrowHandlerActivateOnAny(s, player, g, acc_ok, clock) ==
  LET game == s.games[g]
      is_player_one == player = game.player_one
  IN
  IF is_player_one /\ game.player_one_deposited THEN Result("AlreadyDeposited", s, <<>>)
  ELSE IF ~is_player_one /\ game.player_two_deposited
       THEN Result("AlreadyDeposited", s, <<>>)
  ELSE
    LET t == TokenTransfer(s, Wallet(player), Escrow(g), game.bet_amount, acc_ok) IN
    IF t.err # "Ok" THEN Result(t.err, s, <<>>)
    ELSE
      LET s1 == IF is_player_one
                THEN [t.st EXCEPT !.games[g].player_one_deposited = TRUE]
                ELSE [t.st EXCEPT !.games[g].player_two_deposited = TRUE]
      IN
      IF s1.games[g].player_one_deposited \/ s1.games[g].player_two_deposited
      THEN
        LET s2 == [s1 EXCEPT !.games[g].status = "Active",
                             !.games[g].start_time = clock]
            e == CheckedAddI64(clock, game.timeframe_seconds)
        IN
        IF ~e.some THEN Result("MathOverflow", s2, t.xfers)
        ELSE Result("Ok", [s2 EXCEPT !.games[g].end_time = e.v], t.xfers)
      ELSE Result("Ok", s1, t.xfers)

DepositToEscrowHandler(s, player, g, acc_ok, clock) ==
  LET game == s.games[g]
      is_player_one == player = game.player_one
  IN
  IF is_player_one /\ game.player_one_deposited THEN Result("AlreadyDeposited", s, <<>>)
  ELSE IF ~is_player_one /\ game.player_two_deposited
       THEN Result("AlreadyDeposited", s, <<>>)
  ELSE
    LET t == TokenTransfer(s, Wallet(player), Escrow(g),
                           game.bet_amount, acc_ok)
    IN
    IF t.err # "Ok" THEN Result(t.err, s, <<>>)
    ELSE
      LET s1 == IF is_player_one
                THEN [t.st EXCEPT !.games[g].player_one_deposited = TRUE]
                ELSE [t.st EXCEPT !.games[g].player_two_deposited = TRUE]
      IN
      IF s1.games[g].player_one_deposited /\ s1.games[g].player_two_deposited
      THEN
        LET s2 == [s1 EXCEPT !.games[g].status = "Active",
                             !.games[g].start_time = clock]
            e == CheckedAddI64(clock, game.timeframe_seconds)
        IN
        IF ~e.some THEN Result("MathOverflow", s2, t.xfers)
        ELSE Result("Ok", [s2 EXCEPT !.games[g].end_time = e.v], t.xfers)
      ELSE Result("Ok", s1, t.xfers)

DepositToEscrowIx(s, player, g, from_owner, mint_ok, acc_ok, clock) ==
  LET a == DepositToEscrowAccounts(s, player, g, from_owner, mint_ok) IN
  IF a # "Ok" THEN Result(a, s, <<>>)
  ELSE DepositToEscrowHandler(s, player, g, acc_ok, clock)

DepositTag(player, g) ==
  IF games[g].exists /\ player = games[g].player_one
  THEN "deposit_one" ELSE "deposit_two"

DepositToEscrow ==
  \E player \in Signers, g \in GameIds, from_owner \in Players,
     rejected \in LedgerRejectChoices :
    /\ Apply("deposit_to_escrow", player, g,
             DepositToEscrowIx(Cur, player, g, from_owner, rejected # 2,
                               rejected # 1, now),
             DepositTag(player, g))
    /\ UNCHANGED <<now, calc>>

\* Variant of CancelPendingGameAccounts without the Pending constraint.
CancelPendingGameAccountsAnyStatus(s, authority, g) ==
  IF ~s.platform.exists THEN "AccountNotInitialized"
  ELSE IF s.platform.authority # authority THEN "ConstraintHasOne"
  ELSE IF ~s.games[g].exists THEN "AccountNotInitialized"
  ELSE "Ok"

\* ---------------------------------------------------------- cancel_pending_game
CancelPendingGameAccounts(s, authority, g) ==
  IF ~s.platform.exists THEN "AccountNotInitialized"
  ELSE IF s.platform.authority # authority THEN "ConstraintHasOne"
  ELSE IF ~s.games[g].exists THEN "AccountNotInitialized"
  ELSE IF s.games[g].status # "Pending" THEN "GameNotPending"
  ELSE "Ok"

CancelPendingGameHandler(s, g) ==
  Result("Ok", [s EXCEPT !.games[g].status = "Cancelled"], <<>>)

CancelPendingGameIx(s, authority, g) ==
  LET a == CancelPendingGameAccounts(s, authority, g) IN
  IF a # "Ok" THEN Result(a, s, <<>>)
  ELSE CancelPendingGameHandler(s, g)

CancelPendingGame ==
  \E authority \in Signers, g \in GameIds :
    /\ Apply("cancel_pending_game", authority, g,
             CancelPendingGameIx(Cur, authority, g), "cancel")
    /\ UNCHANGED <<now, calc>>

\* ------------------------------------------------------------------ end_game
\* round(k / (1 + 10^(d / 400))) for d = winner_elo - loser_elo, tabulated:
\* the n-th entry is the largest d for which the f64 expression rounds to
\* at least n.
EloThresholds(k) ==
  IF k = K_NEWCOMER
  THEN <<759, 563, 470, 407, 358, 318, 284, 254, 227, 202, 179, 157, 136, 117,
         98, 79, 61, 43, 26, 8, -9, -27, -44, -62, -80, -99, -118, -137, -158,
         -180, -203, -228, -255, -285, -319, -359, -408, -471, -564, -760>>
  ELSE <<719, 523, 428, 364, 314, 273, 237, 205, 176, 149, 124, 100, 77, 54,
         32, 10, -11, -33, -55, -78, -101, -125, -150, -177, -206, -238, -274,
         -315, -365, -429, -524, -720>>

EloDelta(k, d) ==
  Cardinality({n \in 1..k : d <= EloThresholds(k)[n]})

\* Variant of KFactor whose newcomer range includes the 30th game.
KFactorInclusive(games_played) ==
  IF games_played <= NEWCOMER_GAMES THEN K_NEWCOMER ELSE K_REGULAR

KFactor(games_played) ==
  IF games_played < NEWCOMER_GAMES THEN K_NEWCOMER ELSE K_REGULAR

Max(a, b) == IF a >= b THEN a ELSE b

\* Variant of CalculateElo without the floor on the loser's rating.
CalculateEloNoFloor(winner_elo, loser_elo, winner_games, loser_games) ==
  LET k_winner == KFactor(winner_games)
      k_loser == KFactor(loser_games)
      d == winner_elo - loser_elo
      new_winner == winner_elo + EloDelta(k_winner, d)
      new_loser == loser_elo - EloDelta(k_loser, d)
  IN <<new_winner, new_loser>>

\* calculate_elo: <<new winner rating, new loser rating>>.
CalculateElo(winner_elo, loser_elo, winner_games, loser_games) ==
  LET k_winner == KFactor(winner_games)
      k_loser == KFactor(loser_games)
      d == winner_elo - loser_elo
      new_winner == winner_elo + EloDelta(k_winner, d)
      new_loser == Max(loser_elo - EloDelta(k_loser, d), ELO_FLOOR)
  IN <<new_winner, new_loser>>

\* Variant of EndGameAccounts without the Active constraint on the game.
EndGameAccountsAnyStatus(s, authority, g) ==
  IF ~s.platform.exists THEN "AccountNotInitialized"
  ELSE IF s.platform.authority # authority THEN "ConstraintHasOne"
  ELSE IF ~s.games[g].exists THEN "AccountNotInitialized"
  ELSE IF ~s.profiles[s.games[g].player_one].exists THEN "AccountNotInitialized"
  ELSE IF ~s.profiles[s.games[g].player_two].exists THEN "AccountNotInitialized"
  ELSE "Ok"

EndGameAccounts(s, authority, g) ==
  IF ~s.platform.exists THEN "AccountNotInitialized"
  ELSE IF s.platform.authority # authority THEN "ConstraintHasOne"
  ELSE IF ~s.games[g].exists THEN "AccountNotInitialized"
  ELSE IF s.games[g].status # "Active" THEN "GameNotActive"
  ELSE IF ~s.profiles[s.games[g].player_one].exists THEN "AccountNotInitialized"
  ELSE IF ~s.profiles[s.games[g].player_two].exists THEN "AccountNotInitialized"
  ELSE "Ok"

\* Variant of IsParticipant that accepts any reported winner.
IsParticipantAnyKey(game, winner_key) == TRUE

\* The handler's requirement on the reported winner.
IsParticipant(game, winner_key) ==
  winner_key = game.player_one \/ winner_key = game.player_two

\* Variant of EndGameHandler that leaves the loser's streak as it is.
EndGameHandlerKeepStreak(s, g, winner_key, player_one_pnl, player_two_pnl, clock) ==
  LET game == s.games[g]
      one == game.player_one
      two == game.player_two
  IN
  IF ~IsParticipant(game, winner_key) THEN Result("NotAPlayer", s, <<>>)
  ELSE
    LET s1 == [s EXCEPT !.games[g].status = "Settled",
                        !.games[g].winner = winner_key,
                        !.games[g].player_one_pnl = player_one_pnl,
                        !.games[g].player_two_pnl = player_two_pnl,
                        !.games[g].settled_at = clock]
        p1 == s.profiles[one]
        p2 == s.profiles[two]
        one_won == winner_key = one
        elo == CalculateElo(IF one_won THEN p1.elo_rating ELSE p2.elo_rating,
                            IF one_won THEN p2.elo_rating ELSE p1.elo_rating,
                            IF one_won THEN p1.games_played ELSE p2.games_played,
                            IF one_won THEN p2.games_played ELSE p1.games_played)
        s2 == [s1 EXCEPT !.profiles[one].games_played = @ + 1]
        pnl1 == CheckedAddI64(p1.total_pnl, player_one_pnl)
    IN
    IF ~pnl1.some THEN Result("MathOverflow", s2, <<>>)
    ELSE
      LET s3 == IF winner_key = one
                THEN [s2 EXCEPT !.profiles[one].total_pnl = pnl1.v,
                                !.profiles[one].wins = @ + 1,
                                !.profiles[one].current_streak = @ + 1,
                                !.profiles[one].elo_rating = elo[1]]
                ELSE [s2 EXCEPT !.profiles[one].total_pnl = pnl1.v,
                                !.profiles[one].losses = @ + 1,
                                !.profiles[one].current_streak = @,
                                !.profiles[one].elo_rating = elo[2]]
          s4 == [s3 EXCEPT !.profiles[two].games_played = @ + 1]
          pnl2 == CheckedAddI64(s3.profiles[two].total_pnl, player_two_pnl)
      IN
      IF ~pnl2.some THEN Result("MathOverflow", s4, <<>>)
      ELSE
        Result("Ok",
               IF winner_key = two
               THEN [s4 EXCEPT !.profiles[two].total_pnl = pnl2.v,
                               !.profiles[two].wins = @ + 1,
                               !.profiles[two].current_streak = @ + 1,
                               !.profiles[two].elo_rating = elo[1]]
               ELSE [s4 EXCEPT !.profiles[two].total_pnl = pnl2.v,
                               !.profiles[two].losses = @ + 1,
                               !.profiles[two].current_streak = @,
                               !.profiles[two].elo_rating = elo[2]],
               <<>>)

\* Variant of EndGameHandler that does not count the loser's loss.
EndGameHandlerNoLosses(s, g, winner_key, player_one_pnl, player_two_pnl, clock) ==
  LET game == s.games[g]
      one == game.player_one
      two == game.player_two
  IN
  IF ~IsParticipant(game, winner_key) THEN Result("NotAPlayer", s, <<>>)
  ELSE
    LET s1 == [s EXCEPT !.games[g].status = "Settled",
                        !.games[g].winner = winner_key,
                        !.games[g].player_one_pnl = player_one_pnl,
                        !.games[g].player_two_pnl = player_two_pnl,
                        !.games[g].settled_at = clock]
        p1 == s.profiles[one]
        p2 == s.profiles[two]
        one_won == winner_key = one
        elo == CalculateElo(IF one_won THEN p1.elo_rating ELSE p2.elo_rating,
                            IF one_won THEN p2.elo_rating ELSE p1.elo_rating,
                            IF one_won THEN p1.games_played ELSE p2.games_played,
                            IF one_won THEN p2.games_played ELSE p1.games_played)
        s2 == [s1 EXCEPT !.profiles[one].games_played = @ + 1]
        pnl1 == CheckedAddI64(p1.total_pnl, player_one_pnl)
    IN
    IF ~pnl1.some THEN Result("MathOverflow", s2, <<>>)
    ELSE
      LET s3 == IF winner_key = one
                THEN [s2 EXCEPT !.profiles[one].total_pnl = pnl1.v,
                                !.profiles[one].wins = @ + 1,
                                !.profiles[one].current_streak = @ + 1,
                                !.profiles[one].elo_rating = elo[1]]
                ELSE [s2 EXCEPT !.profiles[one].total_pnl = pnl1.v,
                                !.profiles[one].losses = @,
                                !.profiles[one].current_streak = 0,
                                !.profiles[one].elo_rating = elo[2]]
          s4 == [s3 EXCEPT !.profiles[two].games_played = @ + 1]
          pnl2 == CheckedAddI64(s3.profiles[two].total_pnl, player_two_pnl)
      IN
      IF ~pnl2.some THEN Result("MathOverflow", s4, <<>>)
      ELSE
        Result("Ok",
               IF winner_key = two
               THEN [s4 EXCEPT !.profiles[two].total_pnl = pnl2.v,
                               !.profiles[two].wins = @ + 1,
                               !.profiles[two].current_streak = @ + 1,
                               !.profiles[two].elo_rating = elo[1]]
               ELSE [s4 EXCEPT !.profiles[two].total_pnl = pnl2.v,
                               !.profiles[two].losses = @,
                               !.profiles[two].current_streak = 0,
                               !.profiles[two].elo_rating = elo[2]],
               <<>>)

EndGameHandler(s, g, winner_key, player_one_pnl, player_two_pnl, clock) ==
  LET game == s.games[g]
      one == game.player_one
      two == game.player_two
  IN
  IF ~IsParticipant(game, winner_key) THEN Result("NotAPlayer", s, <<>>)
  ELSE
    LET s1 == [s EXCEPT !.games[g].status = "Settled",
                        !.games[g].winner = winner_key,
                        !.games[g].player_one_pnl = player_one_pnl,
                        !.games[g].player_two_pnl = player_two_pnl,
                        !.games[g].settled_at = clock]
        p1 == s.profiles[one]
        p2 == s.profiles[two]
        one_won == winner_key = one
        elo == CalculateElo(IF one_won THEN p1.elo_rating ELSE p2.elo_rating,
                            IF one_won THEN p2.elo_rating ELSE p1.elo_rating,
                            IF one_won THEN p1.games_played ELSE p2.games_played,
                            IF one_won THEN p2.games_played ELSE p1.games_played)
        s2 == [s1 EXCEPT !.profiles[one].games_played = @ + 1]
        pnl1 == CheckedAddI64(p1.total_pnl, player_one_pnl)
    IN
    IF ~pnl1.some THEN Result("MathOverflow", s2, <<>>)
    ELSE
      LET s3 == IF winner_key = one
                THEN [s2 EXCEPT !.profiles[one].total_pnl = pnl1.v,
                                !.profiles[one].wins = @ + 1,
                                !.profiles[one].current_streak = @ + 1,
                                !.profiles[one].elo_rating = elo[1]]
                ELSE [s2 EXCEPT !.profiles[one].total_pnl = pnl1.v,
                                !.profiles[one].losses = @ + 1,
                                !.profiles[one].current_streak = 0,
                                !.profiles[one].elo_rating = elo[2]]
          s4 == [s3 EXCEPT !.profiles[two].games_played = @ + 1]
          pnl2 == CheckedAddI64(s3.profiles[two].total_pnl, player_two_pnl)
      IN
      IF ~pnl2.some THEN Result("MathOverflow", s4, <<>>)
      ELSE
        Result("Ok",
               IF winner_key = two
               THEN [s4 EXCEPT !.profiles[two].total_pnl = pnl2.v,
                               !.profiles[two].wins = @ + 1,
                               !.profiles[two].current_streak = @ + 1,
                               !.profiles[two].elo_rating = elo[1]]
               ELSE [s4 EXCEPT !.profiles[two].total_pnl = pnl2.v,
                               !.profiles[two].losses = @ + 1,
                               !.profiles[two].current_streak = 0,
                               !.profiles[two].elo_rating = elo[2]],
               <<>>)

EndGameIx(s, authority, g, winner_key, player_one_pnl, player_two_pnl, clock) ==
  LET a == EndGameAccounts(s, authority, g) IN
  IF a # "Ok" THEN Result(a, s, <<>>)
  ELSE EndGameHandler(s, g, winner_key, player_one_pnl, player_two_pnl, clock)

\* The entry point of lib.rs: it takes an optional winner and a forfeit flag
\* and hands them to the handler, which has a parameter for neither: the
\* handler compares the reported winner with the two players (None is
\* neither) and never reads the flag.
EndGameEntry(s, authority, g, winner, player_one_pnl, player_two_pnl, is_forfeit, clock) ==
  EndGameIx(s, authority, g, winner, player_one_pnl, player_two_pnl, clock)

EndGame ==
  \E authority \in Signers, g \in GameIds, winner \in WinnerChoices,
     pnl \in PnlPairs, is_forfeit \in BOOLEAN :
    /\ Apply("end_game", authority, g,
             EndGameEntry(Cur, authority, g, winner, pnl[1], pnl[2], is_forfeit, now),
             "settle")
    /\ UNCHANGED <<now, calc>>

\* Variant of ClaimWinningsAccounts without the winner constraint on the game.
ClaimWinningsAccountsAnySigner(s, winner, g, winner_owner, treasury_owner) ==
  IF ~s.platform.exists THEN "AccountNotInitialized"
  ELSE IF ~s.games[g].exists THEN "AccountNotInitialized"
  ELSE IF ~(s.games[g].status = "Settled" \/ s.games[g].status = "Forfeited")
       THEN "NotClaimable"
  ELSE IF winner_owner # winner THEN "ConstraintRaw"
  ELSE IF treasury_owner # s.platform.treasury THEN "ConstraintRaw"
  ELSE "Ok"

\* ------------------------------------------------------------ claim_winnings
\* winner_owner and treasury_owner are the owners of the token accounts
\* passed as winner_token_account and treasury_token_account.
ClaimWinningsAccounts(s, winner, g, winner_owner, treasury_owner) ==
  IF ~s.platform.exists THEN "AccountNotInitialized"
  ELSE IF ~s.games[g].exists THEN "AccountNotInitialized"
  ELSE IF ~(s.games[g].status = "Settled" \/ s.games[g].status = "Forfeited")
       THEN "NotClaimable"
  ELSE IF s.games[g].winner # winner THEN "NotWinner"
  ELSE IF winner_owner # winner THEN "ConstraintRaw"
  ELSE IF treasury_owner # s.platform.treasury THEN "ConstraintRaw"
  ELSE "Ok"

\* Variant of ClaimAmounts whose fee is rounded up instead of down.
ClaimAmountsRoundUp(bet_amount, fee_bps) ==
  LET total_pot == CheckedMulU64(bet_amount, 2) IN
  IF ~total_pot.some THEN [err |-> "MathOverflow"]
  ELSE
    LET scaled == CheckedMulU64(total_pot.v, fee_bps) IN
    IF ~scaled.some THEN [err |-> "MathOverflow"]
    ELSE
      LET fee == (scaled.v + BPS_DENOMINATOR - 1) \div BPS_DENOMINATOR
          payout == CheckedSubU64(total_pot.v, fee)
      IN
      IF ~payout.some THEN [err |-> "MathOverflow"]
      ELSE [err |-> "Ok", total_pot |-> total_pot.v, fee |-> fee,
            payout |-> payout.v]

\* The escrow accounting of the claim: total pot, fee and payout.
\* Variant of ClaimAmounts whose pot is one player's stake.
ClaimAmountsOneStake(bet_amount, fee_bps) ==
  LET total_pot == CheckedMulU64(bet_amount, 1) IN
  IF ~total_pot.some THEN [err |-> "MathOverflow"]
  ELSE
    LET scaled == CheckedMulU64(total_pot.v, fee_bps) IN
    IF ~scaled.some THEN [err |-> "MathOverflow"]
    ELSE
      LET fee == CheckedDivU64(scaled.v, BPS_DENOMINATOR) IN
      IF ~fee.some THEN [err |-> "MathOverflow"]
      ELSE
        LET payout == CheckedSubU64(total_pot.v, fee.v) IN
        IF ~payout.some THEN [err |-> "MathOverflow"]
        ELSE [err |-> "Ok", total_pot |-> total_pot.v, fee |-> fee.v,
              payout |-> payout.v]

ClaimAmounts(bet_amount, fee_bps) ==
  LET total_pot == CheckedMulU64(bet_amount, 2) IN
  IF ~total_pot.some THEN [err |-> "MathOverflow"]
  ELSE
    LET scaled == CheckedMulU64(total_pot.v, fee_bps) IN
    IF ~scaled.some THEN [err |-> "MathOverflow"]
    ELSE
      LET fee == CheckedDivU64(scaled.v, BPS_DENOMINATOR) IN
      IF ~fee.some THEN [err |-> "MathOverflow"]
      ELSE
        LET payout == CheckedSubU64(total_pot.v, fee.v) IN
        IF ~payout.some THEN [err |-> "MathOverflow"]
        ELSE [err |-> "Ok", total_pot |-> total_pot.v, fee |-> fee.v,
              payout |-> payout.v]

\* Variant of ClaimWinningsHandler that transfers the fee even when it is 0.
ClaimWinningsHandlerAlwaysFee(s, g, winner_owner, treasury_owner, winner_acc_ok, treasury_acc_ok) ==
  LET game == s.games[g]
      amt == ClaimAmounts(game.bet_amount, s.platform.fee_bps)
  IN
  IF amt.err # "Ok" THEN Result(amt.err, s, <<>>)
  ELSE
    LET t1 == TokenTransfer(s, Escrow(g), Wallet(winner_owner),
                            amt.payout, winner_acc_ok)
    IN
    IF t1.err # "Ok" THEN Result(t1.err, s, <<>>)
    ELSE
      LET t2 == TokenTransfer(t1.st, Escrow(g), Wallet(treasury_owner),
                              amt.fee, treasury_acc_ok)
      IN
      IF t2.err # "Ok" THEN Result(t2.err, t1.st, t1.xfers)
      ELSE Result("Ok", t2.st, t1.xfers \o t2.xfers)

ClaimWinningsHandler(s, g, winner_owner, treasury_owner, winner_acc_ok, treasury_acc_ok) ==
  LET game == s.games[g]
      amt == ClaimAmounts(game.bet_amount, s.platform.fee_bps)
  IN
  IF amt.err # "Ok" THEN Result(amt.err, s, <<>>)
  ELSE
    LET t1 == TokenTransfer(s, Escrow(g), Wallet(winner_owner),
                            amt.payout, winner_acc_ok)
    IN
    IF t1.err # "Ok" THEN Result(t1.err, s, <<>>)
    ELSE IF amt.fee > 0
    THEN
      LET t2 == TokenTransfer(t1.st, Escrow(g), Wallet(treasury_owner),
                              amt.fee, treasury_acc_ok)
      IN
      IF t2.err # "Ok" THEN Result(t2.err, t1.st, t1.xfers)
      ELSE Result("Ok", t2.st, t1.xfers \o t2.xfers)
    ELSE Result("Ok", t1.st, t1.xfers)

ClaimWinningsIx(s, winner, g, winner_owner, treasury_owner, winner_acc_ok, treasury_acc_ok) ==
  LET a == ClaimWinningsAccounts(s, winner, g, winner_owner, treasury_owner) IN
  IF a # "Ok" THEN Result(a, s, <<>>)
  ELSE ClaimWinningsHandler(s, g, winner_owner, treasury_owner,
                            winner_acc_ok, treasury_acc_ok)

ClaimWinnings ==
  \E winner \in Signers, g \in GameIds, winner_owner \in Players,
     treasury_owner \in TreasuryOwnerChoices, rejected \in LedgerRejectChoices :
    /\ Apply("claim_winnings", winner, g,
             ClaimWinningsIx(Cur, winner, g, winner_owner, treasury_owner,
                             rejected # 1, rejected # 2), "claim")
    /\ UNCHANGED <<now, calc>>

\* ------------------------------------------------------------- refund_escrow
\* one_owner and two_owner are the owners of the token accounts passed as
\* player_one_token_account and player_two_token_account.
\* Variant of RefundEscrowAccounts without the owner constraints on the two
\* token accounts.
RefundEscrowAccountsAnyOwner(s, g, one_owner, two_owner) ==
  IF ~s.games[g].exists THEN "AccountNotInitialized"
  ELSE IF ~(s.games[g].status = "Tied" \/ s.games[g].status = "Cancelled")
       THEN "NotRefundable"
  ELSE "Ok"

RefundEscrowAccounts(s, g, one_owner, two_owner) ==
  IF ~s.games[g].exists THEN "AccountNotInitialized"
  ELSE IF ~(s.games[g].status = "Tied" \/ s.games[g].status = "Cancelled")
       THEN "NotRefundable"
  ELSE IF one_owner # s.games[g].player_one THEN "ConstraintRaw"
  ELSE IF two_owner # s.games[g].player_two THEN "ConstraintRaw"
  ELSE "Ok"

\* Variant of RefundEscrowHandler that tests the other player's deposit flag
\* before each transfer.
RefundEscrowHandlerSwappedFlags(s, g, one_owner, two_owner, one_acc_ok, two_acc_ok) ==
  LET game == s.games[g]
      refund_amount == game.bet_amount
      t1 == IF game.player_two_deposited
            THEN TokenTransfer(s, Escrow(g), Wallet(one_owner),
                               refund_amount, one_acc_ok)
            ELSE Result("Ok", s, <<>>)
  IN
  IF t1.err # "Ok" THEN Result(t1.err, s, <<>>)
  ELSE
    LET t2 == IF game.player_one_deposited
              THEN TokenTransfer(t1.st, Escrow(g), Wallet(two_owner),
                                 refund_amount, two_acc_ok)
              ELSE Result("Ok", t1.st, <<>>)
    IN
    IF t2.err # "Ok" THEN Result(t2.err, t1.st, t1.xfers)
    ELSE Result("Ok", t2.st, t1.xfers \o t2.xfers)

RefundEscrowHandler(s, g, one_owner, two_owner, one_acc_ok, two_acc_ok) ==
  LET game == s.games[g]
      refund_amount == game.bet_amount
      t1 == IF game.player_one_deposited
            THEN TokenTransfer(s, Escrow(g), Wallet(one_owner),
                               refund_amount, one_acc_ok)
            ELSE Result("Ok", s, <<>>)
  IN
  IF t1.err # "Ok" THEN Result(t1.err, s, <<>>)
  ELSE
    LET t2 == IF game.player_two_deposited
              THEN TokenTransfer(t1.st, Escrow(g), Wallet(two_owner),
                                 refund_amount, two_acc_ok)
              ELSE Result("Ok", t1.st, <<>>)
    IN
    IF t2.err # "Ok" THEN Result(t2.err, t1.st, t1.xfers)
    ELSE Result("Ok", t2.st, t1.xfers \o t2.xfers)

RefundEscrowIx(s, g, one_owner, two_owner, one_acc_ok, two_acc_ok) ==
  LET a == RefundEscrowAccounts(s, g, one_owner, two_owner) IN
  IF a # "Ok" THEN Result(a, s, <<>>)
  ELSE RefundEscrowHandler(s, g, one_owner, two_owner, one_acc_ok, two_acc_ok)

RefundEscrow ==
  \E caller \in Signers, g \in GameIds, one_owner \in Players, two_owner \in Players,
     rejected \in LedgerRejectChoices :
    /\ Apply("refund_escrow", caller, g,
             RefundEscrowIx(Cur, g, one_owner, two_owner, rejected # 1, rejected # 2),
             "refund")
    /\ UNCHANGED <<now, calc>>

\* ---------------------------------------------------------------- close_game
CloseGameAccounts(s, authority, g) ==
  IF ~s.platform.exists THEN "AccountNotInitialized"
  ELSE IF s.platform.authority # authority THEN "Unauthorized"
  ELSE IF ~s.games[g].exists THEN "AccountNotInitialized"
  ELSE IF ~s.escrow[g].exists THEN "AccountNotInitialized"
  ELSE IF s.escrow[g].amount # 0 THEN "EscrowNotEmpty"
  ELSE "Ok"

\* Variant of CloseGameHandler without the resolved-status requirement.
CloseGameHandlerAnyStatus(s, g) ==
  IF s.escrow[g].amount # 0 THEN Result("TokenNonNativeHasBalance", s, <<>>)
  ELSE Result("Ok", [s EXCEPT !.escrow[g] = NoAccount, !.games[g] = NoAccount], <<>>)

\* The handler closes the escrow token account (the token program closes
\* only an empty account); the close = authority constraint removes the
\* game account when the handler has returned Ok.
CloseGameHandler(s, g) ==
  LET game == s.games[g] IN
  IF ~(game.status = "Settled" \/ game.status = "Forfeited"
       \/ game.status = "Tied" \/ game.status = "Cancelled")
  THEN Result("GameNotSettled", s, <<>>)
  ELSE IF s.escrow[g].amount # 0 THEN Result("TokenNonNativeHasBalance", s, <<>>)
  ELSE Result("Ok", [s EXCEPT !.escrow[g] = NoAccount, !.games[g] = NoAccount], <<>>)

CloseGameIx(s, authority, g) ==
  LET a == CloseGameAccounts(s, authority, g) IN
  IF a # "Ok" THEN Result(a, s, <<>>)
  ELSE CloseGameHandler(s, g)

CloseGame ==
  \E authority \in Signers, g \in GameIds :
    /\ Apply("close_game", authority, g, CloseGameIx(Cur, authority, g), "close")
    /\ UNCHANGED <<now, calc>>

\* -------------------------------------------------------------------- clock
Tick ==
  /\ now < MaxTime
  /\ now' = now + 1
  /\ UNCHANGED <<platform, profiles, games, escrow, wallet, last, done, history, calc>>

\* ------------------------------------------------------------ specification
Init ==
  /\ platform = NoAccount
  /\ profiles = [k \in Players |-> NoAccount]
  /\ games = [g \in GameIds |-> NoAccount]
  /\ escrow = [g \in GameIds |-> NoAccount]
  /\ wallet = [k \in Keys |-> IF k \in Players THEN HalfMax ELSE 0]
  /\ now = 1
  /\ last = [op |-> "none", signer |-> None, game |-> 0, xfers |-> <<>>]
  /\ done = [g \in GameIds |-> {}]
  /\ history = NoHistory
  /\ calc = [fn |-> "none"]

\* All program state other than the calculator harness.
Core == <<platform, profiles, games, escrow, wallet>>

Next ==
  \/ InitializePlatform
  \/ CreateProfile
  \/ StartGame
  \/ DepositToEscrow
  \/ CancelPendingGame
  \/ EndGame
  \/ ClaimWinnings
  \/ RefundEscrow
  \/ CloseGame
  \/ Tick

Spec == Init /\ [][Next]_vars

\* The program under fair scheduling of the instructions that resolve a
\* match and empty and close its escrow: whenever one of them stays
\* executable it is eventually executed.
SpecLive ==
  /\ Init /\ [][Next]_vars
  /\ WF_vars(CancelPendingGame)
  /\ WF_vars(EndGame)
  /\ WF_vars(ClaimWinnings)
  /\ WF_vars(RefundEscrow)
  /\ WF_vars(CloseGame)

\* ------------------------------------------- escrow accounting on its own
\* The claim's fee/payout computation applied to a range of stakes and fee
\* rates: calc holds the inputs and, once computed, the outcome.
FeeBetInputs ==
  {1, 2, 3, 19, 20, 1999, 1000000, HalfMax, HalfMax + 1, U64_MAX}

FeeBpsInputs == 0..MAX_FEE_BPS

InitFee ==
  /\ platform = NoAccount
  /\ profiles = [k \in Players |-> NoAccount]
  /\ games = [g \in GameIds |-> NoAccount]
  /\ escrow = [g \in GameIds |-> NoAccount]
  /\ wallet = [k \in Keys |-> IF k \in Players THEN HalfMax ELSE 0]
  /\ now = 1
  /\ last = [op |-> "none", signer |-> None, game |-> 0, xfers |-> <<>>]
  /\ done = [g \in GameIds |-> {}]
  /\ history = NoHistory
  /\ \E b \in FeeBetInputs, f \in FeeBpsInputs :
       calc = [fn |-> "claim_amounts", bet_amount |-> b, fee_bps |-> f,
               out |-> [err |-> "pending"]]

ComputeClaimAmounts ==
  /\ calc.fn = "claim_amounts"
  /\ calc.out.err = "pending"
  /\ calc' = [calc EXCEPT !.out = ClaimAmounts(calc.bet_amount, calc.fee_bps)]
  /\ UNCHANGED <<platform, profiles, games, escrow, wallet, now, last, done, history>>

NextFee == ComputeClaimAmounts

SpecFee == InitFee /\ [][NextFee]_vars
\* ------------------------------------------------ settlement on its own
\* Settlements between two players late in the life of the platform: the
\* players' profiles carry the record of earlier matches (rating, games
\* played, wins), the earlier matches are closed, and MaxGames matches
\* between the two are Active.  bob may still be without a profile.  A third
\* player has a profile and no match.
EloPriorGames == 120

\* A player with a profile who takes part in none of the Active matches.
Bystander == "carol"

\* <<elo_rating, games_played, wins>> of a profile.
ProfileInputs ==
  {<<1200, 0, 0>>, <<1220, 29, 15>>, <<1200, 30, 15>>, <<1216, 31, 16>>,
   <<2000, 90, 80>>, <<100, 90, 10>>, <<110, 90, 10>>, <<119, 90, 10>>,
   <<120, 90, 10>>}

SeasonedProfile(k, p) ==
  [exists |-> TRUE, authority |-> k, gamer_tag |-> 3,
   elo_rating |-> p[1], wins |-> p[3], losses |-> p[2] - p[3],
   total_pnl |-> 0, current_streak |-> IF p[3] > 0 THEN 1 ELSE 0,
   games_played |-> p[2], created_at |-> 1]

ActiveGame(g) ==
  [exists |-> TRUE, game_id |-> EloPriorGames + g,
   player_one |-> "alice", player_two |-> "bob",
   bet_amount |-> 2, timeframe_seconds |-> 60,
   status |-> "Active", winner |-> None,
   player_one_pnl |-> 0, player_two_pnl |-> 0,
   player_one_deposited |-> TRUE, player_two_deposited |-> TRUE,
   start_time |-> 1, end_time |-> 61, settled_at |-> 0]

InitElo ==
  /\ platform = [exists |-> TRUE, authority |-> Admin, fee_bps |-> 250,
                 treasury |-> TreasuryKey,
                 total_games |-> EloPriorGames + MaxGames,
                 total_volume |-> 4 * (EloPriorGames + MaxGames)]
  /\ \E pa \in ProfileInputs :
       \/ \E pb \in ProfileInputs :
            profiles = [k \in Players \cup {Bystander} |->
                          IF k = "alice" THEN SeasonedProfile(k, pa)
                          ELSE IF k = "bob" THEN SeasonedProfile(k, pb)
                          ELSE SeasonedProfile(k, <<1220, 29, 15>>)]
       \/ profiles = [k \in Players \cup {Bystander} |->
                        IF k = "alice" THEN SeasonedProfile(k, pa)
                        ELSE IF k = "bob" THEN NoAccount
                        ELSE SeasonedProfile(k, <<1220, 29, 15>>)]
  /\ games = [g \in GameIds |-> ActiveGame(g)]
  /\ escrow = [g \in GameIds |-> [exists |-> TRUE, amount |-> 4]]
  /\ wallet = [k \in Keys |-> IF k \in Players THEN HalfMax - 2 * MaxGames ELSE 0]
  /\ now = 1
  /\ last = [op |-> "none", signer |-> None, game |-> 0, xfers |-> <<>>]
  /\ done = [g \in GameIds |-> {"start_game", "deposit_one", "deposit_two"}]
  /\ history = [NoHistory EXCEPT
                  !.ids = [i \in 1..(EloPriorGames + MaxGames) |-> i],
                  !.stakes = [i \in 1..(EloPriorGames + MaxGames) |-> 2],
                  !.deposited = 4 * (EloPriorGames + MaxGames)]
  /\ calc = [fn |-> "none"]

NextElo ==
  \/ CreateProfile
  \/ EndGame

SpecElo == InitElo /\ [][NextElo]_vars

\* ================================================================== claims
Resolved == {"Settled", "Tied", "Forfeited", "Cancelled"}

\* A step in which an instruction succeeded.
Changed == Core' # Core \/ last' # last \/ done' # done

\* A step in which instruction op succeeded on game g.
StepOf(op, g) == Changed /\ last'.op = op /\ last'.game = g

StatusIn(g, S) == games[g].exists /\ games[g].status \in S

\* r failed and its transaction changed no account.
Rejected(r) == r.err # "Ok" /\ Commit(Cur, r) = Cur

\* C1: settle succeeds only from Active, claim only from Settled/Forfeited,
\* refund only from Tied/Cancelled, deposit and cancel only from Pending; an
\* attempt from any other status fails and changes nothing.  Hence a claim
\* that succeeded was preceded by a settle, a refund by a settle or a cancel,
\* and a settle by both deposits.
C1_StatusGuards ==
  \A g \in GameIds :
    /\ \A a \in Signers, w \in Signers, pnl \in PnlPairs :
         StatusIn(g, {"Active"})
         \/ Rejected(EndGameIx(Cur, a, g, w, pnl[1], pnl[2], now))
    /\ \A w \in Signers, wo \in Players, to \in TreasuryOwnerChoices,
          rej \in LedgerRejectChoices :
         StatusIn(g, {"Settled", "Forfeited"})
         \/ Rejected(ClaimWinningsIx(Cur, w, g, wo, to, rej # 1, rej # 2))
    /\ \A o1 \in Players, o2 \in Players, rej \in LedgerRejectChoices :
         StatusIn(g, {"Tied", "Cancelled"})
         \/ Rejected(RefundEscrowIx(Cur, g, o1, o2, rej # 1, rej # 2))
    /\ \A pl \in Signers, fo \in Players, rej \in LedgerRejectChoices :
         StatusIn(g, {"Pending"})
         \/ Rejected(DepositToEscrowIx(Cur, pl, g, fo, rej # 2, rej # 1, now))
    /\ \A a \in Signers :
         StatusIn(g, {"Pending"}) \/ Rejected(CancelPendingGameIx(Cur, a, g))
    /\ "claim" \in done[g] => "settle" \in done[g]
    /\ "refund" \in done[g] => ("settle" \in done[g] \/ "cancel" \in done[g])
    /\ "settle" \in done[g] => {"deposit_one", "deposit_two"} \subseteq done[g]

\* A game that went through both deposits, the settlement and the claim,
\* while a refund of it is being rejected.
C1_Witness ==
  \E g \in GameIds :
    /\ {"deposit_one", "deposit_two", "settle", "claim"} \subseteq done[g]
    /\ StatusIn(g, {"Settled"})
    /\ RefundEscrowIx(Cur, g, games[g].player_one, games[g].player_two, TRUE, TRUE).err
         = "NotRefundable"
\* C2: when neither bet_amount * 2 nor total_pot * fee_bps overflows the
\* word, the claim computation yields fee = floor(bet_amount * 2 * fee_bps /
\* 10000) and payout + fee = bet_amount * 2 (1,000,000 at 250 bps gives fee
\* 50,000 and payout 1,950,000); when either overflows it fails with
\* MathOverflow.
C2_FeeAndPayout ==
  (calc.fn = "claim_amounts" /\ calc.out.err # "pending") =>
    LET b == calc.bet_amount
        f == calc.fee_bps
        o == calc.out
        overflow == b > U64_MAX \div 2 \/ (f > 0 /\ 2 * b > U64_MAX \div f)
    IN
    IF overflow THEN o.err = "MathOverflow"
    ELSE /\ o.err = "Ok"
         /\ o.fee * 10000 <= 2 * b * f
         /\ 2 * b * f < (o.fee + 1) * 10000
         /\ o.payout + o.fee = 2 * b
         /\ (b = 1000000 /\ f = 250) => (o.fee = 50000 /\ o.payout = 1950000)

\* The example of the specification has been computed.
C2_Witness ==
  /\ calc.fn = "claim_amounts"
  /\ calc.bet_amount = 1000000
  /\ calc.fee_bps = 250
  /\ calc.out.err = "Ok"
  /\ calc.out.fee = 50000
  /\ calc.out.payout = 1950000

\* C3: a successful claim on a Settled or Forfeited game moves exactly payout
\* from the escrow to the recorded winner and exactly fee from the escrow to
\* the treasury, with no fee transfer when fee = 0; it leaves the game record
\* (status, winner) unchanged and empties an escrow that held 2 * bet_amount.
C3_ClaimStep ==
  \A g \in GameIds :
    StepOf("claim_winnings", g) =>
      LET game == games[g]
          pot == 2 * game.bet_amount
          fee == (pot * platform.fee_bps) \div 10000
          payout == pot - fee
          w == game.winner
          t == platform.treasury
          toWinner == [from |-> Escrow(g), to |-> Wallet(w), amount |-> payout]
          toTreasury == [from |-> Escrow(g), to |-> Wallet(t), amount |-> fee]
      IN
      /\ StatusIn(g, {"Settled", "Forfeited"})
      /\ last'.xfers = IF fee = 0 THEN <<toWinner>> ELSE <<toWinner, toTreasury>>
      /\ \A k \in Keys :
           wallet'[k] = wallet[k] + (IF k = w THEN payout ELSE 0)
                                  + (IF k = t THEN fee ELSE 0)
      /\ escrow'[g].amount = escrow[g].amount - payout - fee
      /\ \A h \in GameIds \ {g} : escrow'[h] = escrow[h]
      /\ games' = games
      /\ escrow[g].amount = pot => escrow'[g].amount = 0

C3_ClaimTransfers == [][C3_ClaimStep]_vars

\* A claim with a non-zero fee has just been paid out of a full escrow.
C3_Witness ==
  /\ last.op = "claim_winnings"
  /\ Len(last.xfers) = 2
  /\ last.xfers[1].to = Wallet(games[last.game].winner)
  /\ last.xfers[2].to = Wallet(TreasuryKey)
  /\ wallet[TreasuryKey] > 0
  /\ escrow[last.game].amount = 0

\* C4: a successful refund on a Tied or Cancelled game returns exactly
\* bet_amount, without fee, to each player whose deposit flag is set and
\* nothing to a player whose flag is not set; when only player_one deposited
\* and the game was cancelled, player_one gets bet_amount back, player_two
\* nothing, and the escrow is left empty.
C4_RefundStep ==
  \A g \in GameIds :
    StepOf("refund_escrow", g) =>
      LET game == games[g]
          stake == game.bet_amount
          x1 == IF game.player_one_deposited
                THEN <<[from |-> Escrow(g), to |-> Wallet(game.player_one),
                        amount |-> stake]>>
                ELSE <<>>
          x2 == IF game.player_two_deposited
                THEN <<[from |-> Escrow(g), to |-> Wallet(game.player_two),
                        amount |-> stake]>>
                ELSE <<>>
          Got(k) == (IF game.player_one_deposited /\ k = game.player_one
                     THEN stake ELSE 0)
                    + (IF game.player_two_deposited /\ k = game.player_two
                       THEN stake ELSE 0)
      IN
      /\ StatusIn(g, {"Tied", "Cancelled"})
      /\ last'.xfers = x1 \o x2
      /\ \A k \in Keys : wallet'[k] = wallet[k] + Got(k)
      /\ escrow'[g].amount = escrow[g].amount - stake * Len(x1 \o x2)
      /\ games' = games
      /\ (game.status = "Cancelled" /\ game.player_one_deposited
          /\ ~game.player_two_deposited) =>
           /\ wallet'[game.player_one] = wallet[game.player_one] + stake
           /\ game.player_two # game.player_one =>
                wallet'[game.player_two] = wallet[game.player_two]
           /\ escrow'[g].amount = 0

C4_RefundTransfers == [][C4_RefundStep]_vars

\* The example of the specification: only player_one deposited, the game was
\* cancelled and has just been refunded.
C4_Witness ==
  /\ last.op = "refund_escrow"
  /\ games[last.game].exists
  /\ games[last.game].status = "Cancelled"
  /\ games[last.game].player_one_deposited
  /\ ~games[last.game].player_two_deposited
  /\ games[last.game].player_one # games[last.game].player_two
  /\ last.xfers = <<[from |-> Escrow(last.game),
                     to |-> Wallet(games[last.game].player_one),
                     amount |-> games[last.game].bet_amount]>>
  /\ "deposit_one" \in done[last.game]
  /\ escrow[last.game].amount = 0
\* The player has already deposited into game g.
DepositedBy(pl, g) ==
  /\ games[g].exists
  /\ \/ pl = games[g].player_one /\ games[g].player_one_deposited
     \/ pl # games[g].player_one /\ pl = games[g].player_two
        /\ games[g].player_two_deposited

\* C5 as stated: a second deposit by the same player into the same game
\* always fails with AlreadyDeposited, whatever the order of the deposits
\* (also once the game is Active), and changes nothing.  Stated here for the
\* games that are still Pending or Active.
C5_Original ==
  \A g \in GameIds, pl \in Signers :
    (DepositedBy(pl, g) /\ games[g].status \in {"Pending", "Active"}) =>
      LET r == DepositToEscrowIx(Cur, pl, g, pl, TRUE, TRUE, now) IN
      r.err = "AlreadyDeposited" /\ Commit(Cur, r) = Cur

\* C5 (amended): a second deposit by the same player into the same game
\* always fails and changes neither the deposit flags nor any balance; the
\* error is AlreadyDeposited while the game is still Pending (the player
\* passing their own token account) and GameNotPending once the game has
\* left Pending, e.g. when the other player deposited in between.
C5_SecondDepositRejected ==
  \A g \in GameIds, pl \in Signers, fo \in Players, rej \in LedgerRejectChoices :
    DepositedBy(pl, g) =>
      LET r == DepositToEscrowIx(Cur, pl, g, fo, rej # 2, rej # 1, now) IN
      /\ Rejected(r)
      /\ (games[g].status = "Pending" /\ fo = pl /\ rej # 2) => r.err = "AlreadyDeposited"
      /\ games[g].status # "Pending" => r.err = "GameNotPending"

\* Both players have deposited, the game is Active, and player_one's second
\* deposit is rejected with GameNotPending; in the other game player_one's
\* second deposit is rejected with AlreadyDeposited.
C5_Witness ==
  \E g \in GameIds, h \in GameIds :
    /\ StatusIn(g, {"Active"})
    /\ {"deposit_one", "deposit_two"} \subseteq done[g]
    /\ DepositToEscrowIx(Cur, games[g].player_one, g, games[g].player_one,
                         TRUE, TRUE, now).err = "GameNotPending"
    /\ StatusIn(h, {"Pending"})
    /\ "deposit_one" \in done[h]
    /\ DepositToEscrowIx(Cur, games[h].player_one, h, games[h].player_one,
                         TRUE, TRUE, now).err = "AlreadyDeposited"

\* C6: a game is activated exactly when both deposit flags are set: a Pending
\* or Cancelled game never has both flags set (so the deposit that sets the
\* second flag activates the game in the same step), an Active, Settled,
\* Tied or Forfeited game has both set, and activation made end_time -
\* start_time equal to timeframe_seconds.
C6_ActivationIffBothDeposited ==
  \A g \in GameIds :
    games[g].exists =>
      LET game == games[g]
          both == game.player_one_deposited /\ game.player_two_deposited
      IN
      /\ game.status \in {"Pending", "Cancelled"} => ~both
      /\ game.status \in {"Active", "Settled", "Tied", "Forfeited"} =>
           /\ both
           /\ game.start_time > 0
           /\ game.end_time - game.start_time = game.timeframe_seconds
      /\ game.status = "Pending" => game.start_time = 0 /\ game.end_time = 0

\* The second deposit has just activated a game.
C6_Witness ==
  /\ last.op = "deposit_to_escrow"
  /\ StatusIn(last.game, {"Active"})
  /\ games[last.game].player_one_deposited
  /\ games[last.game].player_two_deposited
  /\ games[last.game].start_time = now
  /\ games[last.game].end_time = now + games[last.game].timeframe_seconds

\* C7: a game enters at most one resolved status and its status never
\* changes afterwards; cancel never succeeds on a game that has been
\* activated and a deposit never succeeds on a game that has been cancelled.
C7_Step ==
  \A g \in GameIds :
    /\ (StatusIn(g, Resolved) /\ games'[g].exists) =>
         games'[g].status = games[g].status
    /\ StepOf("cancel_pending_game", g) =>
         /\ StatusIn(g, {"Pending"})
         /\ ~({"deposit_one", "deposit_two"} \subseteq done[g])
         /\ "settle" \notin done[g]
    /\ StepOf("end_game", g) => "cancel" \notin done[g]
    /\ StepOf("deposit_to_escrow", g) =>
         StatusIn(g, {"Pending"}) /\ "cancel" \notin done[g]

C7_OneResolution == [][C7_Step]_vars

\* One game was cancelled after a single deposit and now rejects the other
\* player's deposit; another was settled and now rejects a cancel.
C7_Witness ==
  \E g \in GameIds, h \in GameIds :
    /\ StatusIn(g, {"Cancelled"})
    /\ "deposit_one" \in done[g]
    /\ DepositToEscrowIx(Cur, games[g].player_two, g, games[g].player_two,
                         TRUE, TRUE, now).err = "GameNotPending"
    /\ StatusIn(h, {"Settled"})
    /\ CancelPendingGameIx(Cur, platform.authority, h).err = "GameNotPending"

\* C8: close removes a game record only when the caller is the platform
\* authority, the game is Settled, Forfeited, Tied or Cancelled and its escrow
\* holds exactly 0; otherwise close fails and the record stays as it was.
C8_CloseGuards ==
  \A g \in GameIds, a \in Signers :
    (games[g].exists
     /\ ~(a = platform.authority /\ StatusIn(g, Resolved) /\ escrow[g].amount = 0)) =>
      /\ Rejected(CloseGameIx(Cur, a, g))
      /\ Commit(Cur, CloseGameIx(Cur, a, g)).games[g] = games[g]

C8_Step ==
  \A g \in GameIds :
    (games[g].exists /\ ~games'[g].exists) =>
      /\ StepOf("close_game", g)
      /\ last'.signer = platform.authority
      /\ StatusIn(g, Resolved)
      /\ escrow[g].amount = 0

C8_CloseOnlyResolvedAndEmpty == []C8_CloseGuards /\ [][C8_Step]_vars

\* One game has been closed; another, still Pending with an empty escrow,
\* cannot be closed.
C8_Witness ==
  \E g \in GameIds, h \in GameIds :
    /\ "close" \in done[g]
    /\ ~games[g].exists
    /\ ~escrow[g].exists
    /\ StatusIn(h, {"Pending"})
    /\ escrow[h].amount = 0
    /\ CloseGameIx(Cur, platform.authority, h).err = "GameNotSettled"
\* The accounts as the step leaves them.
CurNext ==
  [platform |-> platform', profiles |-> profiles', games |-> games',
   escrow |-> escrow', wallet |-> wallet']

\* r succeeded and the step's result is exactly what r wrote.
Whole(r) == r.err = "Ok" /\ r.st = CurNext

\* The step is the complete effect of a successful run of the instruction
\* that last' names.
WholeInstruction ==
  LET a == last'.signer
      g == last'.game
  IN
  CASE last'.op = "initialize_platform" ->
         \E f \in FeeChoices : Whole(InitializePlatformIx(Cur, a, TreasuryKey, f))
    [] last'.op = "create_profile" ->
         \E t \in TagChoices : Whole(CreateProfileIx(Cur, a, t, now))
    [] last'.op = "start_game" ->
         /\ platform.exists
         /\ platform.total_games < MaxGames
         /\ \E pp \in PlayerPairs, b \in BetChoices, tf \in TimeframeChoices :
              Whole(StartGameIx(Cur, a, pp[1], pp[2], b, tf))
    [] last'.op = "deposit_to_escrow" ->
         \E fo \in Players, rej \in LedgerRejectChoices :
           Whole(DepositToEscrowIx(Cur, a, g, fo, rej # 2, rej # 1, now))
    [] last'.op = "cancel_pending_game" -> Whole(CancelPendingGameIx(Cur, a, g))
    [] last'.op = "end_game" ->
         \E w \in Signers, pnl \in PnlPairs :
           Whole(EndGameIx(Cur, a, g, w, pnl[1], pnl[2], now))
    [] last'.op = "claim_winnings" ->
         \E wo \in Players, to \in TreasuryOwnerChoices, rej \in LedgerRejectChoices :
           Whole(ClaimWinningsIx(Cur, a, g, wo, to, rej # 1, rej # 2))
    [] last'.op = "refund_escrow" ->
         \E o1 \in Players, o2 \in Players, rej \in LedgerRejectChoices :
           Whole(RefundEscrowIx(Cur, g, o1, o2, rej # 1, rej # 2))
    [] last'.op = "close_game" -> Whole(CloseGameIx(Cur, a, g))
    [] OTHER -> FALSE

\* Every failing call, whatever the instruction and its inputs, leaves the
\* accounts as they were.
FailuresChangeNothing ==
  /\ \A f \in FeeChoices :
       LET r == InitializePlatformIx(Cur, Admin, TreasuryKey, f) IN
       r.err = "Ok" \/ Rejected(r)
  /\ \A pl \in Players, t \in TagChoices :
       LET r == CreateProfileIx(Cur, pl, t, now) IN r.err = "Ok" \/ Rejected(r)
  /\ (platform.exists => platform.total_games < MaxGames) =>
       \A a \in Signers, pp \in PlayerPairs, b \in BetChoices, tf \in TimeframeChoices :
         LET r == StartGameIx(Cur, a, pp[1], pp[2], b, tf) IN
         r.err = "Ok" \/ Rejected(r)
  /\ \A g \in GameIds, a \in Signers :
       /\ \A fo \in Players, rej \in LedgerRejectChoices :
            LET r == DepositToEscrowIx(Cur, a, g, fo, rej # 2, rej # 1, now) IN
            r.err = "Ok" \/ Rejected(r)
       /\ LET r == CancelPendingGameIx(Cur, a, g) IN r.err = "Ok" \/ Rejected(r)
       /\ \A w \in Signers, pnl \in PnlPairs :
            LET r == EndGameIx(Cur, a, g, w, pnl[1], pnl[2], now) IN
            r.err = "Ok" \/ Rejected(r)
       /\ \A wo \in Players, to \in TreasuryOwnerChoices, rej \in LedgerRejectChoices :
            LET r == ClaimWinningsIx(Cur, a, g, wo, to, rej # 1, rej # 2) IN
            r.err = "Ok" \/ Rejected(r)
       /\ \A o1 \in Players, o2 \in Players, rej \in LedgerRejectChoices :
            LET r == RefundEscrowIx(Cur, g, o1, o2, rej # 1, rej # 2) IN
            r.err = "Ok" \/ Rejected(r)
       /\ LET r == CloseGameIx(Cur, a, g) IN r.err = "Ok" \/ Rejected(r)

AuthErrors == {"ConstraintHasOne", "Unauthorized", "NotAPlayer", "NotWinner"}

\* r failed with an authorization error and changed nothing.
Unauthorized(r) == r.err \in AuthErrors /\ Commit(Cur, r) = Cur

C11_WinnerInv ==
  \A g \in GameIds :
    games[g].exists =>
      /\ games[g].status \in {"Pending", "Active", "Tied", "Cancelled"} =>
           games[g].winner = None
      /\ games[g].winner # None =>
           games[g].winner \in {games[g].player_one, games[g].player_two}
      /\ \A a \in Signers, w \in Signers, pnl \in PnlPairs :
           w \notin {games[g].player_one, games[g].player_two} =>
             LET r == EndGameIx(Cur, a, g, w, pnl[1], pnl[2], now) IN
             /\ Rejected(r)
             /\ EndGameAccounts(Cur, a, g) = "Ok" => r.err = "NotAPlayer"

C11_WinnerStep ==
  \A g \in GameIds :
    (games[g].exists /\ games'[g].exists /\ games'[g].winner # games[g].winner) =>
      /\ last'.op = "end_game"
      /\ last'.game = g
      /\ games[g].status = "Active"
      /\ games'[g].status \in {"Settled", "Forfeited"}

C11_WinnerIsParticipant == []C11_WinnerInv /\ [][C11_WinnerStep]_vars

\* One match has been settled with a winner recorded, and another is Active
\* and a settle of it naming the authority as winner is refused.
C11_Witness ==
  \E g \in GameIds, h \in GameIds :
    /\ StatusIn(g, {"Settled"})
    /\ "settle" \in done[g]
    /\ games[g].winner \in Players
    /\ StatusIn(h, {"Active"})
    /\ EndGameIx(Cur, platform.authority, h, Admin, 0 - 1, 0 - 1, now).err
         = "NotAPlayer"
\* The status the settle transition is specified to give.
SettleOutcome(winner, is_forfeit) ==
  IF is_forfeit THEN "Forfeited"
  ELSE IF winner = None THEN "Tied"
  ELSE "Settled"

\* C12: a successful settle of an Active match sets the status to Settled
\* when a winner is reported and the forfeit flag is false, to Tied when no
\* winner is reported and the flag is false, and to Forfeited when the flag
\* is set; it stamps settled_at and records both PnL values.
C12_SettleOutcome ==
  \A g \in GameIds, w \in WinnerChoices, pnl \in PnlPairs, f \in BOOLEAN :
    LET r == EndGameEntry(Cur, platform.authority, g, w, pnl[1], pnl[2], f, now) IN
    (StatusIn(g, {"Active"}) /\ r.err = "Ok") =>
      /\ r.st.games[g].status = SettleOutcome(w, f)
      /\ r.st.games[g].settled_at = now
      /\ r.st.games[g].player_one_pnl = pnl[1]
      /\ r.st.games[g].player_two_pnl = pnl[2]
RECURSIVE SumStakes(_)
\* Twice the stake of every match in the sequence, added up.
SumStakes(stakes) ==
  IF stakes = <<>> THEN 0
  ELSE 2 * Head(stakes) + SumStakes(Tail(stakes))

\* C13: total_games is the number of matches created and total_volume the
\* sum over them of twice the stake; a successful create-match adds exactly
\* one match and exactly twice its stake, no other instruction changes
\* either counter, and neither ever decreases.
C13_CountersInv ==
  platform.exists =>
    /\ platform.total_games = Len(history.stakes)
    /\ platform.total_volume = SumStakes(history.stakes)
    /\ \A g \in GameIds :
         (g <= Len(history.stakes) /\ games[g].exists) =>
           games[g].bet_amount = history.stakes[g]
    /\ (\A i \in 1..Len(history.stakes) :
          history.stakes[i] = history.stakes[1]) =>
         platform.total_volume = Len(history.stakes) *
           (2 * (IF history.stakes = <<>> THEN 0 ELSE history.stakes[1]))

C13_CountersStep ==
  (platform.exists /\ platform'.exists) =>
    /\ platform'.total_games >= platform.total_games
    /\ platform'.total_volume >= platform.total_volume
    /\ IF Changed /\ last'.op = "start_game"
       THEN /\ platform'.total_games = platform.total_games + 1
            /\ platform'.total_volume =
                 platform.total_volume + 2 * games'[platform'.total_games].bet_amount
       ELSE /\ platform'.total_games = platform.total_games
            /\ platform'.total_volume = platform.total_volume

C13_VolumeAccounting == []C13_CountersInv /\ [][C13_CountersStep]_vars

\* Two matches of the same stake have been created, one of them already
\* closed, and other instructions have run since.
C13_Witness ==
  /\ platform.exists
  /\ platform.total_games = 2
  /\ history.stakes = <<2, 2>>
  /\ platform.total_volume = 8
  /\ \E g \in GameIds : "close" \in done[g]
  /\ last.op # "start_game"
\* The deposits that have succeeded on game g.
DepositsOf(g) == Cardinality(done[g] \cap {"deposit_one", "deposit_two"})

RECURSIVE SumDeposited(_)
\* The stake of each of the first n matches, once per deposit it received.
SumDeposited(n) ==
  IF n = 0 THEN 0
  ELSE history.stakes[n] * DepositsOf(n) + SumDeposited(n - 1)

\* C14 as stated: in every reachable state total_volume equals the total
\* amount that successful deposits have moved into escrow accounts.
C14_Original ==
  platform.exists => platform.total_volume = history.deposited

\* C14 (amended): total_volume is the cumulative sum of the stakes of both
\* players of every match ever created, counted at creation whether or not
\* they are deposited.  The total amount that successful deposits have moved
\* into escrow never exceeds it and equals it exactly when every match
\* created has received both deposits (a match that is created and cancelled
\* without any deposit still contributes twice its stake); a deposit moves
\* the stake into the match's escrow and leaves total_volume unchanged.
C14_VolumeInv ==
  /\ history.deposited = SumDeposited(Len(history.stakes))
  /\ platform.exists =>
       /\ platform.total_volume = SumStakes(history.stakes)
       /\ history.deposited <= platform.total_volume
       /\ history.deposited = platform.total_volume <=>
            \A g \in 1..Len(history.stakes) : DepositsOf(g) = 2

C14_DepositStep ==
  \A g \in GameIds :
    StepOf("deposit_to_escrow", g) =>
      /\ escrow'[g].amount = escrow[g].amount + games[g].bet_amount
      /\ history'.deposited = history.deposited + games[g].bet_amount
      /\ platform'.total_volume = platform.total_volume

C14_VolumeIsStakesCreated == []C14_VolumeInv /\ [][C14_DepositStep]_vars

\* One match was cancelled without any deposit and another has received
\* both: the volume counts both matches, the deposits only the second.
C14_Witness ==
  \E g \in GameIds, h \in GameIds :
    /\ "cancel" \in done[g]
    /\ DepositsOf(g) = 0
    /\ DepositsOf(h) = 2
    /\ history.deposited = 2 * history.stakes[h]
    /\ platform.total_volume = 2 * history.stakes[g] + 2 * history.stakes[h]
    /\ history.deposited < platform.total_volume
\* The player of game g who is not w.
Opponent(g, w) ==
  IF w = games[g].player_one THEN games[g].player_two ELSE games[g].player_one

\* C15: a profile's rating is 1200 at creation and at least 100 in every
\* reachable state; in a settlement the loser's new rating is the computed
\* value or 100, whichever is larger, and the winner's never decreases.
C15_RatingInv ==
  \A k \in Players : profiles[k].exists => profiles[k].elo_rating >= 100

C15_RatingStep ==
  /\ \A k \in Players :
       (~profiles[k].exists /\ profiles'[k].exists) => profiles'[k].elo_rating = 1200
  /\ \A g \in GameIds :
       StepOf("end_game", g) =>
         LET w == games'[g].winner
             l == Opponent(g, w)
             d == profiles[w].elo_rating - profiles[l].elo_rating
             k == IF profiles[l].games_played < 30 THEN 40 ELSE 32
             computed == profiles[l].elo_rating - EloDelta(k, d)
         IN
         /\ profiles'[w].elo_rating >= profiles[w].elo_rating
         /\ profiles'[l].elo_rating = IF computed >= 100 THEN computed ELSE 100
         /\ profiles'[l].elo_rating <= profiles[l].elo_rating

C15_RatingFloor == []C15_RatingInv /\ [][C15_RatingStep]_vars

\* alice and bob met at 110 each; alice lost, the computed value was 94 and
\* her rating is 100; bob's rose to 126.
C15_Witness ==
  /\ last.op = "end_game"
  /\ games[last.game].winner = "bob"
  /\ profiles["alice"].elo_rating = 100
  /\ profiles["alice"].games_played = 91
  /\ profiles["alice"].losses = 81
  /\ profiles["bob"].elo_rating = 126
  /\ profiles["bob"].games_played = 91
\* The K-factor the rule gives a player with that many games played.
KOf(games_played) == IF games_played < 30 THEN 40 ELSE 32

\* C16 as stated: in a settlement each player's K-factor is 40 if that
\* player's games_played before the settlement is below 30 and 32 otherwise,
\* chosen independently for winner and loser; for equal ratings the
\* winner's rating rises by round(k_winner * 0.5) and the loser's falls by
\* round(k_loser * 0.5).
C16_OriginalStep ==
  \A g \in GameIds :
    StepOf("end_game", g) =>
      LET w == games'[g].winner
          l == Opponent(g, w)
          kw == KOf(profiles[w].games_played)
          kl == KOf(profiles[l].games_played)
      IN
      profiles[w].elo_rating = profiles[l].elo_rating =>
        /\ profiles'[w].elo_rating = profiles[w].elo_rating + kw \div 2
        /\ profiles'[l].elo_rating = profiles[l].elo_rating - kl \div 2

C16_Original == [][C16_OriginalStep]_vars

\* C16 (amended): the K-factors are chosen as stated, from each player's
\* games_played before the settlement's increment; for equal ratings the
\* winner's rating rises by round(k_winner * 0.5) and the loser's falls by
\* round(k_loser * 0.5) but not below the floor of 100 (1200/1200 with 0
\* games each gives 1220 and 1180; 110/110 with 90 games each gives 126
\* and 100).
C16_KFactorStep ==
  \A g \in GameIds :
    StepOf("end_game", g) =>
      LET w == games'[g].winner
          l == Opponent(g, w)
          kw == KOf(profiles[w].games_played)
          kl == KOf(profiles[l].games_played)
          d == profiles[w].elo_rating - profiles[l].elo_rating
          fall == profiles[l].elo_rating - kl \div 2
      IN
      /\ profiles'[w].games_played = profiles[w].games_played + 1
      /\ profiles'[l].games_played = profiles[l].games_played + 1
      /\ profiles'[w].elo_rating = profiles[w].elo_rating + EloDelta(kw, d)
      /\ profiles'[l].elo_rating > 100 =>
           profiles'[l].elo_rating = profiles[l].elo_rating - EloDelta(kl, d)
      /\ d = 0 =>
           /\ profiles'[w].elo_rating = profiles[w].elo_rating + kw \div 2
           /\ profiles'[l].elo_rating = IF fall >= 100 THEN fall ELSE 100
      /\ (d = 0 /\ profiles[w].elo_rating = 1200 /\ kw = 40 /\ kl = 40) =>
           /\ profiles'[w].elo_rating = 1220
           /\ profiles'[l].elo_rating = 1180

C16_KFactor == [][C16_KFactorStep]_vars

\* alice, at 1200 with 30 games played, has beaten bob, at 1200 with none:
\* her K-factor was 32 and his 40.
C16_Witness ==
  /\ last.op = "end_game"
  /\ games[last.game].winner = "alice"
  /\ profiles["alice"].elo_rating = 1216
  /\ profiles["alice"].games_played = 31
  /\ profiles["alice"].wins = 16
  /\ profiles["bob"].elo_rating = 1180
  /\ profiles["bob"].games_played = 1
  /\ profiles["bob"].losses = 1
\* C17: the registry is created at most once: an initialize_platform on an
\* existing registry fails and leaves it unchanged, one with fee_bps > 2500
\* fails, and 0 <= fee_bps <= 2500 in every reachable state.
C17_RegistryInv ==
  /\ platform.exists => (0 <= platform.fee_bps /\ platform.fee_bps <= 2500)
  /\ \A a \in Signers, f \in FeeChoices :
       LET r == InitializePlatformIx(Cur, a, TreasuryKey, f) IN
       /\ platform.exists => (Rejected(r) /\ r.err = "AccountAlreadyInUse")
       /\ f > 2500 => Rejected(r)
       /\ (~platform.exists /\ f > 2500) => r.err = "InvalidFeeBps"
       /\ (~platform.exists /\ f <= 2500) => r.err = "Ok"

C17_RegistryStep ==
  /\ platform.exists =>
       /\ platform'.exists
       /\ platform'.authority = platform.authority
       /\ platform'.treasury = platform.treasury
       /\ platform'.fee_bps = platform.fee_bps
       /\ ~(Changed /\ last'.op = "initialize_platform")
  /\ (~platform.exists /\ platform'.exists) =>
       /\ last'.op = "initialize_platform"
       /\ platform'.total_games = 0
       /\ platform'.total_volume = 0

C17_RegistryOnce == []C17_RegistryInv /\ [][C17_RegistryStep]_vars

\* The registry was created with the largest fee allowed, matches have been
\* created since, and a second initialize_platform is refused.
C17_Witness ==
  /\ platform.exists
  /\ platform.fee_bps = 2500
  /\ platform.total_games > 0
  /\ last.op # "initialize_platform"
  /\ InitializePlatformIx(Cur, Admin, TreasuryKey, 250).err = "AccountAlreadyInUse"
\* C18: every match record has two distinct participants: player_one #
\* player_two for every match in every reachable state.
C18_DistinctPlayers ==
  \A g \in GameIds : games[g].exists => games[g].player_one # games[g].player_two
\* C19: a successful settle increments games_played by exactly 1 and adds
\* the reported PnL to total_pnl for both participants; the winner's wins
\* and current_streak each increase by 1; a participant who did not win has
\* current_streak reset to 0; every other profile is unchanged.
C19_ProfileStep ==
  \A g \in GameIds :
    StepOf("end_game", g) =>
      LET one == games[g].player_one
          two == games[g].player_two
          w == games'[g].winner
          Pnl(k) == IF k = one THEN games'[g].player_one_pnl
                    ELSE games'[g].player_two_pnl
      IN
      /\ one # two
      /\ \A k \in {one, two} :
           /\ profiles'[k].games_played = profiles[k].games_played + 1
           /\ profiles'[k].total_pnl = profiles[k].total_pnl + Pnl(k)
           /\ IF k = w
              THEN /\ profiles'[k].wins = profiles[k].wins + 1
                   /\ profiles'[k].current_streak = profiles[k].current_streak + 1
                   /\ profiles'[k].losses = profiles[k].losses
              ELSE /\ profiles'[k].current_streak = 0
                   /\ profiles'[k].wins = profiles[k].wins
                   /\ profiles'[k].losses = profiles[k].losses + 1
           /\ profiles'[k].authority = profiles[k].authority
           /\ profiles'[k].gamer_tag = profiles[k].gamer_tag
           /\ profiles'[k].created_at = profiles[k].created_at
      /\ \A k \in (DOMAIN profiles) \ {one, two} : profiles'[k] = profiles[k]

C19_SettleUpdatesProfiles == [][C19_ProfileStep]_vars

\* alice, on a streak of 1, has beaten bob, who was on a streak of 1 too:
\* hers is 2, his is 0, and the bystander's profile is as it was.
C19_Witness ==
  /\ last.op = "end_game"
  /\ games[last.game].winner = "alice"
  /\ games[last.game].player_one_pnl = I64_MAX
  /\ profiles["alice"].games_played = 30
  /\ profiles["alice"].wins = 16
  /\ profiles["alice"].current_streak = 2
  /\ profiles["alice"].total_pnl = I64_MAX
  /\ profiles["bob"].games_played = 31
  /\ profiles["bob"].wins = 15
  /\ profiles["bob"].losses = 16
  /\ profiles["bob"].current_streak = 0
  /\ profiles["bob"].total_pnl = 0 - 1
  /\ profiles[Bystander] = SeasonedProfile(Bystander, <<1220, 29, 15>>)
\* C20: the Rating Engine runs only on a win/loss settlement: a successful
\* settle reported as a tie (no winner) or as a forfeit (forfeit flag set),
\* which is to move the match to Tied or Forfeited, leaves the rating of both
\* participants unchanged; only a settle into Settled changes ratings.
C20_RatingOnlyOnWinLoss ==
  \A g \in GameIds, w \in WinnerChoices, pnl \in PnlPairs, f \in BOOLEAN :
    LET r == EndGameEntry(Cur, platform.authority, g, w, pnl[1], pnl[2], f, now) IN
    (StatusIn(g, {"Active"}) /\ r.err = "Ok") =>
      /\ SettleOutcome(w, f) \in {"Tied", "Forfeited"} =>
           \A k \in {games[g].player_one, games[g].player_two} :
             r.st.profiles[k].elo_rating = profiles[k].elo_rating
      /\ (\E k \in Players : r.st.profiles[k].elo_rating # profiles[k].elo_rating) =>
           r.st.games[g].status = "Settled"
\* C21: match identifiers are collision-free: a created match gets game_id
\* = total_games + 1 as read at creation and total_games is set to that
\* value, so whatever else happens in between (closes of earlier matches
\* included) no two matches ever created share a game_id and the ids are
\* strictly increasing in creation order.
C21_IdsInv ==
  /\ \A i \in 1..Len(history.ids), j \in 1..Len(history.ids) :
       i < j => history.ids[i] < history.ids[j]
  /\ \A g \in GameIds : games[g].exists => games[g].game_id = g
  /\ \A g \in GameIds, h \in GameIds :
       (games[g].exists /\ games[h].exists /\ g # h) =>
         games[g].game_id # games[h].game_id
  /\ platform.exists =>
       \A i \in 1..Len(history.ids) : history.ids[i] <= platform.total_games

C21_IdsStep ==
  (Changed /\ last'.op = "start_game") =>
    LET id == platform.total_games + 1 IN
    /\ platform'.total_games = id
    /\ games'[id].exists
    /\ games'[id].game_id = id
    /\ history'.ids = Append(history.ids, id)
    /\ \A i \in 1..Len(history.ids) : history.ids[i] < id

C21_UniqueIds == []C21_IdsInv /\ [][C21_IdsStep]_vars

\* Two matches have been created, the second after the first was closed.
C21_Witness ==
  /\ history.ids = <<1, 2>>
  /\ ~games[1].exists
  /\ "close" \in done[1]
  /\ games[2].exists
  /\ games[2].game_id = 2
  /\ "close" \notin done[2]
  /\ last.op = "start_game"
RECURSIVE SumOver(_, _)
\* The sum of f[x] over the x in S.
SumOver(f, S) ==
  IF S = {} THEN 0
  ELSE LET x == CHOOSE y \in S : TRUE IN f[x] + SumOver(f, S \ {x})

\* All tokens there are: the balances of the players, the authority and the
\* treasury, and of every escrow.
TotalFunds ==
  SumOver(wallet, Keys)
  + SumOver([g \in GameIds |-> IF escrow[g].exists THEN escrow[g].amount ELSE 0],
            GameIds)

\* C22: funds are neither lost nor duplicated: the sum of all player
\* balances, all escrow balances and the treasury balance is constant, and
\* funds leave an escrow only for the match's player_one or player_two (in
\* a refund) or for its recorded winner or the treasury (in a claim).
C22_FundsStep ==
  /\ TotalFunds' = TotalFunds
  /\ Changed =>
       \A i \in 1..Len(last'.xfers) :
         LET x == last'.xfers[i]
             g == last'.game
         IN
         IF "escrow" \in DOMAIN x.from
         THEN /\ x.from = Escrow(g)
              /\ last'.op \in {"refund_escrow", "claim_winnings"}
              /\ last'.op = "refund_escrow" =>
                   x.to \in {Wallet(games[g].player_one), Wallet(games[g].player_two)}
              /\ last'.op = "claim_winnings" =>
                   x.to \in {Wallet(games[g].winner), Wallet(platform.treasury)}
              /\ escrow'[g].amount <= escrow[g].amount
         ELSE /\ last'.op = "deposit_to_escrow"
              /\ x.from = Wallet(last'.signer)
              /\ x.to = Escrow(g)

C22_FundsConserved ==
  [](TotalFunds = 2 * HalfMax) /\ [][C22_FundsStep]_vars

\* One match has been claimed, with a fee paid to the treasury, and another
\* refunded to the one player who had deposited.
C22_Witness ==
  \E g \in GameIds, h \in GameIds :
    /\ {"claim"} \subseteq done[g]
    /\ history.paid[g][TreasuryKey] = 1
    /\ wallet[TreasuryKey] = 1
    /\ \E k \in Players : history.paid[g][k] = 3
    /\ {"cancel", "refund"} \subseteq done[h]
    /\ \E k \in Players : history.paid[h][k] = 2
    /\ SumOver(wallet, Players) = 2 * HalfMax - 1
\* The deposit flags set on game g.
FlagsSet(g) ==
  (IF games[g].player_one_deposited THEN 1 ELSE 0)
  + (IF games[g].player_two_deposited THEN 1 ELSE 0)

\* C23: with only the program's instructions touching an escrow, the escrow
\* of a Pending match holds bet_amount times the number of deposit flags
\* set, the escrow of an Active match holds exactly 2 * bet_amount, and no
\* escrow ever holds more than 2 * bet_amount.
C23_EscrowBalance ==
  \A g \in GameIds :
    games[g].exists =>
      /\ escrow[g].exists
      /\ games[g].status = "Pending" =>
           escrow[g].amount = games[g].bet_amount * FlagsSet(g)
      /\ games[g].status = "Active" =>
           escrow[g].amount = 2 * games[g].bet_amount
      /\ escrow[g].amount <= 2 * games[g].bet_amount

\* One match is Pending with one deposit in its escrow, another is Active
\* with both.
C23_Witness ==
  \E g \in GameIds, h \in GameIds :
    /\ StatusIn(g, {"Pending"})
    /\ FlagsSet(g) = 1
    /\ escrow[g].amount = games[g].bet_amount
    /\ "deposit_one" \in done[g] \/ "deposit_two" \in done[g]
    /\ StatusIn(h, {"Active"})
    /\ escrow[h].amount = 2 * games[h].bet_amount
    /\ {"deposit_one", "deposit_two"} \subseteq done[h]
\* What the players together have received from the escrow of game g.
PaidToPlayers(g) == SumOver(history.paid[g], Players)

\* C24: payout and refund happen at most once per match, although claim and
\* refund change neither the status nor the deposit flags: over all claim
\* calls the winner receives at most payout and the treasury at most fee
\* from the match, over all refund calls each player receives at most
\* bet_amount; once a claim or a refund has emptied the escrow a repeated
\* call fails and changes nothing.
C24_PaidInv ==
  \A g \in GameIds :
    g <= Len(history.stakes) =>
      LET bet == history.stakes[g]
          amt == ClaimAmounts(bet, platform.fee_bps)
      IN
      /\ "settle" \in done[g] =>
           /\ "refund" \notin done[g]
           /\ IF "claim" \in done[g]
              THEN /\ amt.err = "Ok"
                   /\ PaidToPlayers(g) = amt.payout
                   /\ \E w \in Players : history.paid[g][w] = amt.payout
                   /\ history.paid[g][TreasuryKey] = amt.fee
              ELSE /\ PaidToPlayers(g) = 0
                   /\ history.paid[g][TreasuryKey] = 0
      /\ "settle" \notin done[g] =>
           /\ "claim" \notin done[g]
           /\ \A k \in Players : history.paid[g][k] <= bet
           /\ PaidToPlayers(g) <= bet * DepositsOf(g)
           /\ history.paid[g][TreasuryKey] = 0
      /\ history.paid[g][Admin] = 0
      /\ (games[g].exists /\ ("claim" \in done[g] \/ PaidToPlayers(g) > 0)) =>
           /\ escrow[g].amount = 0
           /\ \A a \in Signers, wo \in Players, to \in TreasuryOwnerChoices,
                 rej \in LedgerRejectChoices :
                Rejected(ClaimWinningsIx(Cur, a, g, wo, to, rej # 1, rej # 2))
           /\ \A o1 \in Players, o2 \in Players, rej \in LedgerRejectChoices :
                Rejected(RefundEscrowIx(Cur, g, o1, o2, rej # 1, rej # 2))

C24_PaidStep ==
  \A g \in GameIds :
    /\ StepOf("claim_winnings", g) =>
         /\ "claim" \notin done[g]
         /\ games'[g] = games[g]
    /\ StepOf("refund_escrow", g) =>
         /\ last'.xfers # <<>> => PaidToPlayers(g) = 0
         /\ games'[g] = games[g]

C24_PaidOnce == []C24_PaidInv /\ [][C24_PaidStep]_vars

\* One match has been claimed and another refunded, both still on record
\* with their status and flags, and a second claim of the first by its
\* winner fails for lack of funds.
C24_Witness ==
  \E g \in GameIds, h \in GameIds :
    /\ StatusIn(g, {"Settled"})
    /\ "claim" \in done[g]
    /\ history.paid[g][games[g].winner] = 3
    /\ history.paid[g][TreasuryKey] = 1
    /\ ClaimWinningsIx(Cur, games[g].winner, g, games[g].winner,
                       platform.treasury, TRUE, TRUE).err = "TokenInsufficientFunds"
    /\ StatusIn(h, {"Cancelled"})
    /\ FlagsSet(h) = 1
    /\ PaidToPlayers(h) = games[h].bet_amount
    /\ RefundEscrowIx(Cur, h, games[h].player_one, games[h].player_two,
                      TRUE, TRUE).err = "TokenInsufficientFunds"
\* The matches on record that ended Tied with k as one of the players.
TiesOf(k) ==
  Cardinality({g \in GameIds : /\ StatusIn(g, {"Tied"})
                               /\ k \in {games[g].player_one, games[g].player_two}})

\* C26: every profile's counters are consistent: games_played equals wins +
\* losses + the ties the profile took part in, and current_streak <= wins.
C26_CountersConsistent ==
  \A k \in DOMAIN profiles :
    profiles[k].exists =>
      /\ profiles[k].games_played = profiles[k].wins + profiles[k].losses + TiesOf(k)
      /\ profiles[k].current_streak <= profiles[k].wins

\* A profile that has won one match and lost the next, and its opponent.
C26_Witness ==
  \E k \in Players : \E o \in Players \ {k} :
    /\ profiles[k].exists /\ profiles[o].exists
    /\ profiles[k].games_played = 2
    /\ profiles[k].wins = 1 /\ profiles[k].losses = 1
    /\ profiles[k].current_streak = 0
    /\ profiles[o].current_streak = 1
    /\ profiles[o].wins = 1
\* Some claim call on game g is accepted as things stand.
Claimable(g) ==
  \E a \in Signers, wo \in Players, to \in TreasuryOwnerChoices :
    ~Rejected(ClaimWinningsIx(Cur, a, g, wo, to, TRUE, TRUE))

\* A settled match holding funds can only be drained by a claim, and nothing
\* a claim depends on changes after the settlement.
C25_Drainable ==
  \A g \in GameIds :
    (StatusIn(g, {"Settled"}) /\ escrow[g].amount > 0) => Claimable(g)

\* C25: no funds get stuck: from every reachable state of every match there
\* is a continuation that drains the escrow and closes the match, and under
\* fair scheduling of cancel/settle, claim/refund and close every created
\* match is eventually drained and closed.
C25_NoStuckFunds ==
  /\ []C25_Drainable
  /\ \A g \in GameIds :
       games[g].exists ~> (~games[g].exists /\ "close" \in done[g])
====
